---- MODULE Spec2Model ----
(***************************************************************************)
(* Model of src/game-objects/Player.ts: the player actor of the scene, its *)
(* per-frame update, its timed locks (reload, shoot animation), its hit    *)
(* points kept in the scene registry, the heart row and the death marker.  *)
(*                                                                         *)
(* The scene host is modelled at its interface: the registry is a          *)
(* key/value map, scene.time is a list of one-shot events that the clock   *)
(* fires, in insertion order, in the first frame whose time has reached    *)
(* their due time, and a frame is: clock step, then collision callbacks    *)
(* (loseHp), then update.  The wall clock (Date) and the scene clock are    *)
(* one variable, now.                                                      *)
(***************************************************************************)
EXTENDS Integers, Sequences, FiniteSets, TLC

\* ------------------------------------------------------------ constants
HIT_DELAY == 500
PLAYER_SPEED == 100
PLAYER_SHOOTING_TIME == 300
PLAYER_RELOAD == 500
MAX_HP == 3

\* ------------------------------------------------------------ bounds
\* The clock stops after MaxFrames frames of 100, at MaxTime; no shot is
\* fired that could not be reloaded by then.
MaxFrames == 12
MaxTime == MaxFrames * 100
\* new Player(...) calls, the initial one included.
MaxPlayers == 2
\* loseHp is not called once the registry value is MinHpDepth below zero.
MinHpDepth == 1
\* Hostile entities (scene.treants) an arrow is wired to.
NumTreants == 2

\* Frame lengths the scene clock advances by: fine-grained ones, and the
\* coarse one the life-cycle specification runs on.
FrameDeltas == {100, 200}
LifeDeltas == {300}
\* Spawn positions handed to the constructor.
Spawns == {<<40, 60>>}

\* Input snapshots: the six named boolean fields of keyPressed.
KeySnapshots ==
    [up : BOOLEAN, down : BOOLEAN, left : BOOLEAN, right : BOOLEAN,
     space : BOOLEAN, shift : BOOLEAN]
NoKeys ==
    [up |-> FALSE, down |-> FALSE, left |-> FALSE, right |-> FALSE,
     space |-> FALSE, shift |-> FALSE]
\* The snapshots the life-cycle specification feeds to update.
LifeKeys ==
    {NoKeys,
     [NoKeys EXCEPT !.shift = TRUE],
     [NoKeys EXCEPT !.left = TRUE],
     [NoKeys EXCEPT !.space = TRUE],
     [NoKeys EXCEPT !.up = TRUE, !.right = TRUE, !.shift = TRUE]}
\* The snapshots the damage specification feeds to update (no shooting).
DamageKeys == {NoKeys, [NoKeys EXCEPT !.left = TRUE]}

VARIABLES
    now,        \* Date().getTime() and the scene clock
    registry,   \* scene.registry: a map from keys to values
    player,     \* the Player instance the scene holds
    timers,     \* scene.time: pending one-shot events, in insertion order
    arrows,     \* Arrow instances constructed: how many, and the last one
    colliders,  \* physics colliders registered between arrows and treants
    tombs,      \* 'tomb' sprites added to the scene, in creation order
    emptyHearts,\* 'heart-empty' backdrop sprites added to the scene
    ctorCalls,  \* new Player(...) calls made so far
    lastOp,     \* history: the last operation called, its input and result
    spaced,     \* history: every loseHp on this player came more than
                \* HIT_DELAY after the previous one
    hitOrBornAt \* history: when loseHp was last called on this player, or
                \* when it was constructed if never

vars ==
    <<now, registry, player, timers, arrows, colliders, tombs, emptyHearts,
      ctorCalls, lastOp, spaced, hitOrBornAt>>

\* ------------------------------------------------------------ registry
PLAYER_HP == "PLAYER_HP"
EmptyRegistry == [k \in {} |-> 0]

\* registry.get(key) is undefined for an absent key; RegistryHas tells.
RegistryHas(reg, key) == key \in DOMAIN reg
RegistryGet(reg, key) == reg[key]
RegistrySet(reg, key, value) ==
    [k \in DOMAIN reg \cup {key} |-> IF k = key THEN value ELSE reg[k]]

\* !registryHp: undefined and 0 are both falsy.
Falsy(reg, key) == ~RegistryHas(reg, key) \/ RegistryGet(reg, key) = 0

getHp(reg) == RegistryGet(reg, PLAYER_HP)
setHp(reg, newHp) == RegistrySet(reg, PLAYER_HP, newHp)
addHp(reg, hpToAdd) == setHp(reg, RegistryGet(reg, PLAYER_HP) + hpToAdd)

\* ------------------------------------------------------------ sprites
null == [type |-> "null"]

\* scene.physics.add.sprite(x, y, 'player-idle-down', 0): no animation is
\* playing yet, the body is at rest, the sprite is not mirrored.
NewSprite(x, y) ==
    [active |-> TRUE, x |-> x, y |-> y, velX |-> 0, velY |-> 0,
     flipX |-> FALSE, anim |-> "none", teardowns |-> 0]

\* GameObject.destroy(): tears the object down (teardowns counts it) and
\* removes its physics body, so nothing moves it any more; a destroyed
\* object ignores further destroy calls.
destroy(sprite) ==
    IF sprite.active
    THEN [sprite EXCEPT !.active = FALSE, !.teardowns = @ + 1,
                        !.velX = 0, !.velY = 0]
    ELSE sprite

\* ------------------------------------------------------------ the world
\* The objects a Player method reads and writes, threaded through the
\* operators below: w.p is `this`, the rest is reached through this.scene.
World ==
    [p |-> player, reg |-> registry, timers |-> timers, arrows |-> arrows,
     colliders |-> colliders, tombs |-> tombs]

\* scene.time.addEvent({delay, callback, callbackScope: this})
addEvent(w, delay, callback) ==
    [w EXCEPT !.timers =
        Append(@, [due |-> now + delay, callback |-> callback, scope |-> w.p.id])]

\* ------------------------------------------------------------ hearts
\* The filled hearts initHearts creates: Array(getHp()) sprites, all shown.
\* (Array(n) throws for n < 0: see Construct.)
initHearts(reg) == [i \in 1 .. getHp(reg) |-> 1]

\* Mutant of updateHearts: the comparison is strict (index > getHp()).
updateHearts_OffByOne(w) ==
    [w EXCEPT !.p.hearts =
        [i \in 1 .. Len(@) |-> IF (i - 1) > getHp(w.reg) THEN 0 ELSE @[i]]]

\* updateHearts: heart index (0-based) i is hidden when i >= getHp().
updateHearts(w) ==
    [w EXCEPT !.p.hearts =
        [i \in 1 .. Len(@) |-> IF (i - 1) >= getHp(w.reg) THEN 0 ELSE @[i]]]

\* ------------------------------------------------------------ health
\* Mutant of canGetHit: the window ends at HIT_DELAY, not after it.
canGetHit_Inclusive(p) == now - p.lastTimeHit >= HIT_DELAY

canGetHit(p) == now - p.lastTimeHit > HIT_DELAY

\* The tail of loseHp: the death marker and the teardown.
\* Mutant of die: the tomb is created but the game object is kept.
die_TombOnly(w) ==
    IF w.p.tomb = null
    THEN LET t == [type |-> "tomb", x |-> w.p.gameObject.x,
                   y |-> w.p.gameObject.y, owner |-> w.p.id]
         IN  [w EXCEPT !.p.tomb = t, !.tombs = Append(@, t)]
    ELSE w

die(w) ==
    LET w3 == IF w.p.tomb = null
              THEN LET t == [type |-> "tomb", x |-> w.p.gameObject.x,
                             y |-> w.p.gameObject.y, owner |-> w.p.id]
                   IN  [w EXCEPT !.p.tomb = t, !.tombs = Append(@, t)]
              ELSE w
    IN  [w3 EXCEPT !.p.gameObject = destroy(@)]

\* Mutant of loseHp: the Player dies with one hit point left (getHp() > 1).
loseHp_DiesAtOne(w) ==
    LET w1 == updateHearts([w EXCEPT !.reg = addHp(@, -1)])
        w2 == [w1 EXCEPT !.p.lastTimeHit = now]
    IN  IF getHp(w2.reg) > 1 THEN w2 ELSE die(w2)

\* Mutant of loseHp: the death marker is added without the !this.tomb test.
loseHp_NoTombGuard(w) ==
    LET w1 == updateHearts([w EXCEPT !.reg = addHp(@, -1)])
        w2 == [w1 EXCEPT !.p.lastTimeHit = now]
    IN  IF getHp(w2.reg) > 0
        THEN w2
        ELSE LET t == [type |-> "tomb", x |-> w2.p.gameObject.x,
                       y |-> w2.p.gameObject.y, owner |-> w2.p.id]
             IN  [w2 EXCEPT !.p.tomb = t, !.tombs = Append(@, t),
                            !.p.gameObject = destroy(@)]

\* Mutant of loseHp: damage inside the invulnerability window is dropped.
loseHp_SelfGuarded(w) ==
    IF ~canGetHit(w.p)
    THEN w
    ELSE LET w1 == updateHearts([w EXCEPT !.reg = addHp(@, -1)])
             w2 == [w1 EXCEPT !.p.lastTimeHit = now]
         IN  IF getHp(w2.reg) > 0 THEN w2 ELSE die(w2)

loseHp(w) ==
    LET w1 == updateHearts([w EXCEPT !.reg = addHp(@, -1)])
        w2 == [w1 EXCEPT !.p.lastTimeHit = now]
    IN  IF getHp(w2.reg) > 0 THEN w2 ELSE die(w2)

\* ------------------------------------------------------------ locks
reload(w) ==
    addEvent([w EXCEPT !.p.isLoading = TRUE], PLAYER_RELOAD, "readyToFire")

readyToFire(p) == [p EXCEPT !.isLoading = FALSE]

endShoot(p) == [p EXCEPT !.isShooting = FALSE]

\* ------------------------------------------------------------ movement
play(sprite, key) == [sprite EXCEPT !.anim = key]

\* Mutant of go: the sprite is mirrored for 'right' instead of 'left'.
go_FlipRight(p, direction, shouldAnimate) ==
    LET g1 == CASE direction = "left"  -> [p.gameObject EXCEPT !.velX = -PLAYER_SPEED]
                [] direction = "right" -> [p.gameObject EXCEPT !.velX = PLAYER_SPEED]
                [] direction = "up"    -> [p.gameObject EXCEPT !.velY = -PLAYER_SPEED]
                [] direction = "down"  -> [p.gameObject EXCEPT !.velY = PLAYER_SPEED]
                [] OTHER -> p.gameObject
    IN  IF ~shouldAnimate
        THEN [p EXCEPT !.gameObject = g1]
        ELSE [p EXCEPT
                !.gameObject =
                    play([g1 EXCEPT !.flipX = (direction = "right")],
                         "player-move-" \o direction),
                !.orientation = direction]

go(p, direction, shouldAnimate) ==
    LET g1 == CASE direction = "left"  -> [p.gameObject EXCEPT !.velX = -PLAYER_SPEED]
                [] direction = "right" -> [p.gameObject EXCEPT !.velX = PLAYER_SPEED]
                [] direction = "up"    -> [p.gameObject EXCEPT !.velY = -PLAYER_SPEED]
                [] direction = "down"  -> [p.gameObject EXCEPT !.velY = PLAYER_SPEED]
                [] OTHER -> p.gameObject
    IN  IF ~shouldAnimate
        THEN [p EXCEPT !.gameObject = g1]
        ELSE [p EXCEPT
                !.gameObject =
                    play([g1 EXCEPT !.flipX = (direction = "left")],
                         "player-move-" \o direction),
                !.orientation = direction]

handleHorizontalMovement(p, keyPressed) ==
    LET isUpDownPressed == keyPressed.up \/ keyPressed.down
    IN  IF keyPressed.left THEN go(p, "left", ~isUpDownPressed)
        ELSE IF keyPressed.right THEN go(p, "right", ~isUpDownPressed)
        ELSE p

\* Mutant of handleVerticalMovement: vertical moves do not animate.
handleVerticalMovement_NoAnimate(p, keyPressed) ==
    IF keyPressed.up THEN go(p, "up", FALSE)
    ELSE IF keyPressed.down THEN go(p, "down", FALSE)
    ELSE p

handleVerticalMovement(p, keyPressed) ==
    IF keyPressed.up THEN go(p, "up", TRUE)
    ELSE IF keyPressed.down THEN go(p, "down", TRUE)
    ELSE p

\* Mutant of handleMovement: the isShooting test is missing.
handleMovement_NoLock(p, keyPressed) ==
    handleVerticalMovement(handleHorizontalMovement(p, keyPressed), keyPressed)

handleMovement(p, keyPressed) ==
    IF p.isShooting
    THEN p
    ELSE handleVerticalMovement(handleHorizontalMovement(p, keyPressed), keyPressed)

\* ------------------------------------------------------------ animations
PunchAnim ==
    [down  |-> [flip |-> FALSE, anim |-> "player-attack-down"],
     up    |-> [flip |-> FALSE, anim |-> "player-attack-up"],
     left  |-> [flip |-> TRUE,  anim |-> "player-attack-side"],
     right |-> [flip |-> FALSE, anim |-> "player-attack-side"]]

IdleAnim ==
    [down  |-> [flip |-> FALSE, anim |-> "player-idle-down"],
     up    |-> [flip |-> FALSE, anim |-> "player-idle-up"],
     left  |-> [flip |-> TRUE,  anim |-> "player-idle-side"],
     right |-> [flip |-> FALSE, anim |-> "player-idle-side"]]

ShootAnim ==
    [down  |-> [anim |-> "player-attack-weapon-down"],
     up    |-> [anim |-> "player-attack-weapon-up"],
     left  |-> [anim |-> "player-attack-weapon-side"],
     right |-> [anim |-> "player-attack-weapon-side"]]

\* Mutant of punch: no punch while a lock is set.
punch_WhenUnlocked(p) ==
    IF p.isLoading \/ p.isShooting
    THEN p
    ELSE [p EXCEPT !.gameObject =
            play([@ EXCEPT !.flipX = PunchAnim[p.orientation].flip],
                 PunchAnim[p.orientation].anim)]

punch(p) ==
    [p EXCEPT !.gameObject =
        play([@ EXCEPT !.flipX = PunchAnim[p.orientation].flip],
             PunchAnim[p.orientation].anim)]

\* Mutant of beIdle: the idle animation ignores the orientation.
beIdle_AlwaysDown(p) ==
    [p EXCEPT !.gameObject =
        play([@ EXCEPT !.flipX = IdleAnim["down"].flip], IdleAnim["down"].anim)]

beIdle(p) ==
    [p EXCEPT !.gameObject =
        play([@ EXCEPT !.flipX = IdleAnim[p.orientation].flip],
             IdleAnim[p.orientation].anim)]

\* ------------------------------------------------------------ shooting
\* Mutant of NewArrow: the arrow gets the constructor's default facing.
NewArrow_FacingDown(p) == [type |-> "arrow", owner |-> p.id, orientation |-> "down"]

\* new Arrow(scene, this, this.orientation)
NewArrow(p) == [type |-> "arrow", owner |-> p.id, orientation |-> p.orientation]

\* Mutant of shoot: the movement lock is released after PLAYER_RELOAD.
shoot_ReleasedWithReload(w) ==
    LET w1 == addEvent([w EXCEPT !.p.isShooting = TRUE], PLAYER_RELOAD, "endShoot")
        w2 == [w1 EXCEPT !.p.gameObject = play(@, ShootAnim[w1.p.orientation].anim)]
    IN  [w2 EXCEPT !.arrows = [created |-> @.created + 1, last |-> NewArrow(w2.p)]]

shoot(w) ==
    LET w1 == addEvent([w EXCEPT !.p.isShooting = TRUE], PLAYER_SHOOTING_TIME, "endShoot")
        w2 == [w1 EXCEPT !.p.gameObject = play(@, ShootAnim[w1.p.orientation].anim)]
    IN  [w2 EXCEPT !.arrows = [created |-> @.created + 1, last |-> NewArrow(w2.p)]]

\* Mutant of handleShootKey: the isLoading test is missing.
handleShootKey_NoReloadGate(w, keyPressed) ==
    IF keyPressed.shift
    THEN LET w1 == shoot(reload(w))
         IN  [w1 EXCEPT !.colliders = @ + NumTreants]
    ELSE w

handleShootKey(w, keyPressed) ==
    IF keyPressed.shift
    THEN IF w.p.isLoading
         THEN w
         ELSE LET w1 == shoot(reload(w))
              \* one collider per treant of the scene
              IN  [w1 EXCEPT !.colliders = @ + NumTreants]
    ELSE w

noKeyPressed(keyPressed) ==
    Cardinality({f \in DOMAIN keyPressed : keyPressed[f]}) = 0

\* Mutant of update: the idle fallback does not look at isLoading.
update_IdleWhileLoading(w, keyPressed) ==
    IF ~w.p.gameObject.active
    THEN w
    ELSE LET p0 == [w.p EXCEPT !.gameObject.velX = 0, !.gameObject.velY = 0]
             p1 == handleMovement(p0, keyPressed)
             p2 == IF keyPressed.space THEN punch(p1) ELSE p1
             p3 == IF noKeyPressed(keyPressed) THEN beIdle(p2) ELSE p2
         IN  handleShootKey([w EXCEPT !.p = p3], keyPressed)

\* Mutant of update: no early return for an inactive game object.
update_NoActiveCheck(w, keyPressed) ==
    LET p0 == [w.p EXCEPT !.gameObject.velX = 0, !.gameObject.velY = 0]
        p1 == handleMovement(p0, keyPressed)
        p2 == IF keyPressed.space THEN punch(p1) ELSE p1
        p3 == IF noKeyPressed(keyPressed) /\ ~p2.isLoading THEN beIdle(p2) ELSE p2
    IN  handleShootKey([w EXCEPT !.p = p3], keyPressed)

update(w, keyPressed) ==
    IF ~w.p.gameObject.active
    THEN w
    ELSE LET p0 == [w.p EXCEPT !.gameObject.velX = 0, !.gameObject.velY = 0]
             p1 == handleMovement(p0, keyPressed)
             p2 == IF keyPressed.space THEN punch(p1) ELSE p1
             p3 == IF noKeyPressed(keyPressed) /\ ~p2.isLoading THEN beIdle(p2) ELSE p2
         IN  handleShootKey([w EXCEPT !.p = p3], keyPressed)

\* ------------------------------------------------------------ construction
\* Mutant of seedHp: every constructor call resets the hit points.
seedHp_Always(reg) == RegistrySet(reg, PLAYER_HP, MAX_HP)

\* The constructor's first statement: seed the registry when !registryHp.
seedHp(reg) ==
    IF Falsy(reg, PLAYER_HP) THEN RegistrySet(reg, PLAYER_HP, MAX_HP) ELSE reg

\* The Player a constructor call that returns leaves behind.
NewPlayer(reg, x, y, id) ==
    [id |-> id, gameObject |-> NewSprite(x, y), orientation |-> "down",
     lastTimeHit |-> now, isLoading |-> FALSE, isShooting |-> FALSE,
     tomb |-> null, hearts |-> initHearts(reg)]

\* ------------------------------------------------------------ scene clock
\* The clock's update at time t: every event due by t is removed and its
\* callback run on its scope, in insertion order.  An event whose scope is
\* a Player the scene no longer holds changes only that old instance.
\* Mutant of fire: the scene drops the callbacks of a destroyed Player.
RECURSIVE fire_LiveOnly(_, _, _)
fire_LiveOnly(p, events, t) ==
    IF events = <<>> \/ ~p.gameObject.active THEN p
    ELSE LET e == Head(events)
             p1 == IF e.due <= t /\ e.scope = p.id
                   THEN IF e.callback = "readyToFire" THEN readyToFire(p)
                        ELSE endShoot(p)
                   ELSE p
         IN  fire_LiveOnly(p1, Tail(events), t)

RECURSIVE fire(_, _, _)
fire(p, events, t) ==
    IF events = <<>> THEN p
    ELSE LET e == Head(events)
             p1 == IF e.due <= t /\ e.scope = p.id
                   THEN IF e.callback = "readyToFire" THEN readyToFire(p)
                        ELSE endShoot(p)
                   ELSE p
         IN  fire(p1, Tail(events), t)

pending(events, t) == SelectSeq(events, LAMBDA e : e.due > t)

Op(name, keys, ret) == [name |-> name, keys |-> keys, ret |-> ret]

\* ------------------------------------------------------------ actions
\* new Player(scene, x, y), the scene replacing the Player it holds.  With
\* a negative value in the registry initHearts throws (Array(n), n < 0)
\* after the backdrop hearts were added: no Player results.
Construct(x, y) ==
    /\ ctorCalls < MaxPlayers
    /\ LET reg1 == seedHp(registry)
           threw == getHp(reg1) < 0
       IN  /\ registry' = reg1
           /\ emptyHearts' = emptyHearts + MAX_HP
           /\ ctorCalls' = ctorCalls + 1
           /\ player' = IF threw THEN player ELSE NewPlayer(reg1, x, y, ctorCalls + 1)
           /\ spaced' = IF threw THEN spaced ELSE TRUE
           /\ hitOrBornAt' = IF threw THEN hitOrBornAt ELSE now
           /\ lastOp' = Op("new", NoKeys, ~threw)
    /\ UNCHANGED <<now, timers, arrows, colliders, tombs>>

\* player.update(keyPressed), called by the scene once per frame.
Update(keyPressed) ==
    /\ (keyPressed.shift /\ player.gameObject.active /\ ~player.isLoading)
            => now + PLAYER_RELOAD <= MaxTime
    /\ LET w == update(World, keyPressed)
       IN  /\ player' = w.p
           /\ timers' = w.timers
           /\ arrows' = w.arrows
           /\ colliders' = w.colliders
    /\ lastOp' = Op("update", keyPressed, player.gameObject.active)
    /\ UNCHANGED <<now, registry, tombs, emptyHearts, ctorCalls, spaced, hitOrBornAt>>

\* player.loseHp(), called from a collision callback.
LoseHp ==
    /\ getHp(registry) > -MinHpDepth
    /\ LET w == loseHp(World)
       IN  /\ player' = w.p
           /\ registry' = w.reg
           /\ tombs' = w.tombs
    /\ spaced' = (spaced /\ (Len(player.hearts) = getHp(registry)
                              \/ now - player.lastTimeHit > HIT_DELAY))
    /\ hitOrBornAt' = now
    /\ lastOp' = Op("loseHp", NoKeys, FALSE)
    /\ UNCHANGED <<now, timers, arrows, colliders, emptyHearts, ctorCalls>>

\* player.canGetHit(), called from a collision callback.
CanGetHit ==
    /\ lastOp' = Op("canGetHit", NoKeys, canGetHit(player))
    /\ UNCHANGED <<now, registry, player, timers, arrows, colliders, tombs,
                   emptyHearts, ctorCalls, spaced, hitOrBornAt>>

\* A frame of the scene clock: time advances by delta and the due events fire.
Tick(delta) ==
    /\ now + delta <= MaxTime
    /\ now' = now + delta
    /\ player' = fire(player, timers, now + delta)
    /\ timers' = pending(timers, now + delta)
    /\ lastOp' = Op("tick", NoKeys, FALSE)
    /\ UNCHANGED <<registry, arrows, colliders, tombs, emptyHearts, ctorCalls,
                   spaced, hitOrBornAt>>

\* ------------------------------------------------------------ specification
\* The scene's create(): an empty registry, then the first new Player.
Init ==
    /\ now = 0
    /\ registry = seedHp(EmptyRegistry)
    /\ \E s \in Spawns : player = NewPlayer(seedHp(EmptyRegistry), s[1], s[2], 1)
    /\ timers = <<>>
    /\ arrows = [created |-> 0, last |-> null]
    /\ colliders = 0
    /\ tombs = <<>>
    /\ emptyHearts = MAX_HP
    /\ ctorCalls = 1
    /\ lastOp = Op("new", NoKeys, TRUE)
    /\ spaced = TRUE
    /\ hitOrBornAt = 0

\* The frame loop of one live Player under every input snapshot.
Next ==
    \/ \E keyPressed \in KeySnapshots : Update(keyPressed)
    \/ \E delta \in FrameDeltas : Tick(delta)

Spec == Init /\ [][Next]_vars

\* Damage and the invulnerability window on fine-grained time, without
\* shooting.
NextDamage ==
    \/ \E s \in Spawns : Construct(s[1], s[2])
    \/ \E keyPressed \in DamageKeys : Update(keyPressed)
    \/ LoseHp
    \/ CanGetHit
    \/ \E delta \in FrameDeltas : Tick(delta)

SpecDamage == Init /\ [][NextDamage]_vars

\* The whole life cycle: shooting, damage, death, re-construction.
NextLife ==
    \/ \E s \in Spawns : Construct(s[1], s[2])
    \/ \E keyPressed \in LifeKeys : Update(keyPressed)
    \/ LoseHp
    \/ CanGetHit
    \/ \E delta \in LifeDeltas : Tick(delta)

SpecLife == Init /\ [][NextLife]_vars

\* SpecLife with a scene clock that keeps running until the last frame, so
\* that every scheduled event is fired.
SpecLifeFair == SpecLife /\ WF_vars(\E delta \in LifeDeltas : Tick(delta))

\* ------------------------------------------------------------ vocabulary
\* The hit points held in the shared store.
hitPoints == getHp(registry)

\* The pending events whose callbackScope is the Player the scene holds.
OwnEvents(callback) ==
    {i \in DOMAIN timers :
        timers[i].scope = player.id /\ timers[i].callback = callback}

\* The death markers in the scene that Player id created.
TombsOf(id) == {i \in DOMAIN tombs : tombs[i].owner = id}

MoveAnims ==
    {"player-move-left", "player-move-right", "player-move-up", "player-move-down"}

\* ------------------------------------------------------------ C1
\* C1: in every reachable state, whatever constructions, updates, loseHp
\* calls and timer callbacks came before, the hit points in the store
\* satisfy 0 <= hitPoints <= 3.  (Violated: loseHp has no floor.)
C1_HitPointsInRange == 0 <= hitPoints /\ hitPoints <= 3

\* ------------------------------------------------------------ C2
\* C2: an update with 'shift' held while isLoading is true does nothing for
\* the ranged action: no projectile and no collider is created, no release
\* is scheduled, neither lock flag changes, and the Player ends as the same
\* update without 'shift' leaves it (so the animation is not touched by the
\* shot); hence the k-th projectile is never created before (k-1)*500.
C2_RejectedShot ==
    [][ /\ (lastOp'.name = "update" /\ lastOp'.keys.shift /\ player.isLoading) =>
            /\ arrows' = arrows
            /\ colliders' = colliders
            /\ timers' = timers
            /\ player'.isLoading = player.isLoading
            /\ player'.isShooting = player.isShooting
            /\ player' = update(World, [lastOp'.keys EXCEPT !.shift = FALSE]).p
        /\ (arrows'.created - 1) * 500 <= now'
      ]_vars

\* A shot was fired earlier, the reload is still pending, and the last call
\* was an update of the live Player with 'shift' held: it was rejected.
C2_Witness ==
    /\ lastOp.name = "update" /\ lastOp.ret /\ lastOp.keys.shift
    /\ player.isLoading
    /\ arrows.created = 1
    /\ \E i \in OwnEvents("readyToFire") : timers[i].due < now + PLAYER_RELOAD

\* ------------------------------------------------------------ C3
\* C3: an update of a live Player with 'shift' held while isLoading is false
\* sets isLoading and isShooting, schedules the reload release at +500 and
\* the movement-lock release at +300, and creates exactly one projectile,
\* oriented as the Player is at the end of that update.
C3_AcceptedShot ==
    [][ (/\ lastOp'.name = "update" /\ lastOp'.keys.shift
         /\ player.gameObject.active /\ ~player.isLoading) =>
            /\ player'.isLoading
            /\ player'.isShooting
            /\ timers' = timers \o
                  << [due |-> now + 500, callback |-> "readyToFire", scope |-> player.id],
                     [due |-> now + 300, callback |-> "endShoot", scope |-> player.id] >>
            /\ arrows'.created = arrows.created + 1
            /\ arrows'.last.owner = player.id
            /\ arrows'.last.orientation = player'.orientation
      ]_vars

\* The last call was an update with 'left' and 'shift' held that fired: both
\* locks are set, the reload is due a full delay from now, and the arrow
\* points left, where the Player turned in that same update.
C3_Witness ==
    /\ lastOp.name = "update" /\ lastOp.keys.shift /\ lastOp.keys.left
    /\ player.isLoading /\ player.isShooting
    /\ \E i \in OwnEvents("readyToFire") : timers[i].due = now + PLAYER_RELOAD
    /\ arrows.created = 2
    /\ arrows.last.orientation = "left"
    /\ player.orientation = "left"

\* ------------------------------------------------------------ C4
\* C4: a shot fired at time T holds the movement lock exactly while
\* now < T + 300 and the reload lock exactly while now < T + 500: the clock
\* alone releases them, the movement lock first; so in every reachable
\* state isShooting implies isLoading.
C4_LockOrder ==
    /\ player.isShooting => player.isLoading
    /\ \A i \in OwnEvents("readyToFire") :
          LET firedAt == timers[i].due - 500
          IN  /\ firedAt <= now /\ now < firedAt + 500
              /\ player.isLoading
              /\ player.isShooting <=> now < firedAt + 300
    /\ OwnEvents("readyToFire") = {} => ~player.isLoading /\ ~player.isShooting

\* The clock has just released the movement lock of the only shot fired,
\* and the reload lock is still held.
C4_Witness ==
    /\ lastOp.name = "tick"
    /\ arrows.created = 1
    /\ player.isLoading /\ ~player.isShooting
    /\ OwnEvents("endShoot") = {}

\* ------------------------------------------------------------ C5
\* C5: an update that starts with isShooting true ignores the directional
\* keys: orientation is unchanged, velocity is zero on both axes, no
\* player-move-* animation is playing, and flip and animation change only
\* by the punch of that update ('space'), to the current orientation's.
C5_MovementLocked ==
    [][ (lastOp'.name = "update" /\ player.isShooting) =>
            /\ player'.orientation = player.orientation
            /\ player'.gameObject.velX = 0
            /\ player'.gameObject.velY = 0
            /\ player'.gameObject.anim \notin MoveAnims
            /\ IF lastOp'.keys.space
               THEN /\ player'.gameObject.flipX = PunchAnim[player.orientation].flip
                    /\ player'.gameObject.anim = PunchAnim[player.orientation].anim
               ELSE /\ player'.gameObject.flipX = player.gameObject.flipX
                    /\ player'.gameObject.anim = player.gameObject.anim
      ]_vars

\* The last call was an update with 'left' and 'up' held and no punch, made
\* while a movement lock set by an earlier update was held: the Player
\* still faces right, stands still and plays the shoot animation.
C5_Witness ==
    /\ lastOp.name = "update" /\ lastOp.keys.left /\ lastOp.keys.up
    /\ ~lastOp.keys.space
    /\ player.isShooting
    /\ \E i \in OwnEvents("endShoot") : timers[i].due < now + PLAYER_SHOOTING_TIME
    /\ player.orientation = "right"
    /\ player.gameObject.velX = 0 /\ player.gameObject.velY = 0
    /\ player.gameObject.anim = "player-attack-weapon-side"

\* ------------------------------------------------------------ C6
\* C6: on one Player the hit points change only by loseHp, one at a time;
\* for a Player constructed at 3 whose loseHp calls came more than 500
\* apart, while hit points are above 0 the Player is active, has no death
\* marker and was never torn down, and at 0 it is inactive, torn down once,
\* and has exactly one death marker, at its own position.
C6_HitPointSequence ==
    [][ /\ (player'.id = player.id /\ getHp(registry') # hitPoints) =>
            (lastOp'.name = "loseHp" /\ getHp(registry') = hitPoints - 1)
        /\ (spaced' /\ Len(player'.hearts) = 3 /\ getHp(registry') >= 0) =>
            LET p == player'
                mine == {i \in DOMAIN tombs' : tombs'[i].owner = p.id}
            IN  IF getHp(registry') > 0
                THEN /\ p.gameObject.active
                     /\ p.gameObject.teardowns = 0
                     /\ p.tomb = null
                     /\ mine = {}
                ELSE /\ ~p.gameObject.active
                     /\ p.gameObject.teardowns = 1
                     /\ p.tomb # null
                     /\ p.tomb.x = p.gameObject.x /\ p.tomb.y = p.gameObject.y
                     /\ Cardinality(mine) = 1
                     /\ \A i \in mine : tombs'[i] = p.tomb
      ]_vars

\* The third of three loseHp calls, each more than 500 after the one
\* before, has brought a Player constructed at 3 down to 0.
C6_Witness ==
    /\ lastOp.name = "loseHp"
    /\ spaced
    /\ Len(player.hearts) = 3
    /\ hitPoints = 0
    /\ ~player.gameObject.active
    /\ player.tomb # null

C8_CanGetHit ==
    [][ lastOp'.name = "canGetHit" =>
            /\ lastOp'.ret <=> (now - hitOrBornAt > 500)
            /\ UNCHANGED <<now, registry, player, timers, arrows, colliders,
                           tombs, emptyHearts, ctorCalls>>
      ]_vars

\* canGetHit was read exactly 500 after a loseHp call and returned false.
C8_Witness ==
    /\ lastOp.name = "canGetHit"
    /\ ~lastOp.ret
    /\ hitPoints < Len(player.hearts)
    /\ now - hitOrBornAt = 500

\* ------------------------------------------------------------ C9
\* C9: every loseHp call lowers the hit points by exactly one and sets
\* lastTimeHit to now, whether or not canGetHit holds.
C9_LoseHpUnguarded ==
    [][ lastOp'.name = "loseHp" =>
            /\ getHp(registry') = hitPoints - 1
            /\ player'.lastTimeHit = now
      ]_vars

\* Two loseHp calls in the tick the first Player was constructed in, inside
\* its invulnerability window: both applied.
C9_Witness ==
    /\ lastOp.name = "loseHp"
    /\ player.id = 1
    /\ now = 0
    /\ ~canGetHit(player)
    /\ hitPoints = Len(player.hearts) - 2

\* ------------------------------------------------------------ C10
\* C10: a constructed Player has as many filled hearts as the hit points at
\* that instant, all shown; afterwards the heart at index i (from 0) is
\* hidden iff i >= hit points, the row keeps its length, and a hidden heart
\* is never shown again.
C10_Hearts ==
    [][ /\ (lastOp'.name = "new" /\ lastOp'.ret) =>
            /\ Len(player'.hearts) = getHp(registry')
            /\ \A i \in DOMAIN player'.hearts : player'.hearts[i] = 1
        /\ \A i \in DOMAIN player'.hearts :
            (player'.hearts[i] = 0) <=> (i - 1 >= getHp(registry'))
        /\ player'.id = player.id =>
            /\ Len(player'.hearts) = Len(player.hearts)
            /\ \A i \in DOMAIN player.hearts :
                player.hearts[i] = 0 => player'.hearts[i] = 0
      ]_vars

\* After 3 -> 1: index 0 is shown, indices 1 and 2 are hidden.
C10_Witness ==
    /\ hitPoints = 1
    /\ player.hearts = <<1, 0, 0>>

\* ------------------------------------------------------------ C11
\* C11 as stated: a constructor call leaves the registry unchanged whenever
\* it already holds a hit-point value.  (Violated: a stored 0 is re-seeded.)
C11_SeedOnlyWhenAbsent ==
    [][ (lastOp'.name = "new" /\ RegistryHas(registry, PLAYER_HP)) =>
            registry' = registry
      ]_vars

\* C11 as amended: a constructor call sets the hit points to 3 when the
\* registry holds no value or holds 0, and leaves every other stored value
\* unchanged, so damage short of death persists across re-creation.
C11_SeedWhenFalsy ==
    [][ lastOp'.name = "new" =>
            IF ~RegistryHas(registry, PLAYER_HP) \/ hitPoints = 0
            THEN registry' = RegistrySet(registry, PLAYER_HP, 3)
            ELSE registry' = registry
      ]_vars

\* A second Player was constructed over a stored value of 2 and found it.
C11_Witness ==
    /\ lastOp.name = "new" /\ lastOp.ret
    /\ player.id = 2
    /\ hitPoints = 2
    /\ Len(player.hearts) = 2

\* ------------------------------------------------------------ C12
IdleAnims == {"player-idle-down", "player-idle-up", "player-idle-side"}

\* C12 as stated: every update of a live Player with no key held leaves the
\* velocity at zero and selects the idle animation of the orientation.
\* (Violated: not while a reload is in progress.)
C12_NoKeysIdle ==
    [][ (lastOp'.name = "update" /\ lastOp'.ret /\ lastOp'.keys = NoKeys) =>
            /\ player'.gameObject.velX = 0
            /\ player'.gameObject.velY = 0
            /\ player'.gameObject.anim = IdleAnim[player'.orientation].anim
      ]_vars

\* C12 as amended: every update of a live Player with no key held leaves
\* the velocity at zero and the orientation as it was and, unless isLoading
\* is set, selects the idle animation and flip of that orientation.
C12_NoKeysIdleUnlessLoading ==
    [][ (lastOp'.name = "update" /\ lastOp'.ret /\ lastOp'.keys = NoKeys) =>
            /\ player'.gameObject.velX = 0
            /\ player'.gameObject.velY = 0
            /\ player'.orientation = player.orientation
            /\ ~player.isLoading =>
                /\ player'.gameObject.anim = IdleAnim[player.orientation].anim
                /\ player'.gameObject.flipX = IdleAnim[player.orientation].flip
      ]_vars

\* A Player facing left, not reloading, was updated with no key held: it
\* stands still in the mirrored side idle animation.
C12_Witness ==
    /\ lastOp.name = "update" /\ lastOp.ret /\ lastOp.keys = NoKeys
    /\ ~player.isLoading
    /\ player.orientation = "left"
    /\ player.gameObject.anim = "player-idle-side"
    /\ player.gameObject.flipX
    /\ player.gameObject.velX = 0 /\ player.gameObject.velY = 0

\* ------------------------------------------------------------ C13
\* C13: an update of a live Player with only 'left' held and isShooting
\* false ends with velocity.x < 0 and velocity.y = 0, orientation left, the
\* sprite mirrored and the player-move-left animation.
C13_GoLeft ==
    [][ (/\ lastOp'.name = "update" /\ lastOp'.ret
         /\ lastOp'.keys = [NoKeys EXCEPT !.left = TRUE]
         /\ ~player.isShooting) =>
            /\ player'.gameObject.velX < 0
            /\ player'.gameObject.velY = 0
            /\ player'.orientation = "left"
            /\ player'.gameObject.flipX
            /\ player'.gameObject.anim = "player-move-left"
      ]_vars

\* A reloading Player whose movement lock is over was updated with only
\* 'left' held: it moves left, mirrored.
C13_Witness ==
    /\ lastOp.name = "update" /\ lastOp.ret
    /\ lastOp.keys = [NoKeys EXCEPT !.left = TRUE]
    /\ ~player.isShooting
    /\ player.isLoading
    /\ player.gameObject.velX = -PLAYER_SPEED /\ player.gameObject.velY = 0
    /\ player.orientation = "left"
    /\ player.gameObject.anim = "player-move-left"

\* ------------------------------------------------------------ C16
\* C16: in an update of a live Player the idle fallback runs iff no key is
\* held and isLoading is false: then animation and flip become the idle
\* ones of the orientation; with no key held while isLoading, animation and
\* flip are left as they were; and with a key held an idle animation is
\* only ever the one that was already playing, flip untouched.
C16_IdleFallback ==
    [][ (lastOp'.name = "update" /\ lastOp'.ret) =>
            LET g == player.gameObject
                h == player'.gameObject
            IN  IF lastOp'.keys = NoKeys
                THEN IF ~player.isLoading
                     THEN /\ h.anim = IdleAnim[player.orientation].anim
                          /\ h.flipX = IdleAnim[player.orientation].flip
                     ELSE /\ h.anim = g.anim
                          /\ h.flipX = g.flipX
                ELSE h.anim \in IdleAnims =>
                          /\ h.anim = g.anim
                          /\ h.flipX = g.flipX
      ]_vars

\* A reloading Player whose movement lock is over was updated with no key
\* held: the shoot animation is still the current one.
C16_Witness ==
    /\ lastOp.name = "update" /\ lastOp.ret /\ lastOp.keys = NoKeys
    /\ player.isLoading /\ ~player.isShooting
    /\ player.gameObject.anim = "player-attack-weapon-down"

\* ------------------------------------------------------------ C14
\* The Player with the two fields punch writes blanked.
ButAnimation(p) == [p EXCEPT !.gameObject.anim = "", !.gameObject.flipX = FALSE]

\* C14: every update of a live Player with 'space' held punches, whatever
\* the locks: the flip is the punch flip of the orientation, and the
\* animation is the punch animation unless a shot fired in the same update
\* ('shift' held, isLoading false), which then plays its own animation over
\* it and creates its arrow; apart from flip and animation the update ends
\* as the same update without 'space' (locks, orientation, velocity,
\* events, arrows and hit points are not touched by punch).
C14_PunchUngated ==
    [][ (lastOp'.name = "update" /\ lastOp'.ret /\ lastOp'.keys.space) =>
            LET fired == lastOp'.keys.shift /\ ~player.isLoading
                u == update(World, [lastOp'.keys EXCEPT !.space = FALSE])
            IN  /\ player'.gameObject.flipX = PunchAnim[player'.orientation].flip
                /\ player'.gameObject.anim =
                      IF fired THEN ShootAnim[player'.orientation].anim
                               ELSE PunchAnim[player'.orientation].anim
                /\ fired => arrows'.created = arrows.created + 1
                /\ ButAnimation(player') = ButAnimation(u.p)
                /\ timers' = u.timers
                /\ arrows' = u.arrows
                /\ registry' = registry
      ]_vars

\* A Player facing left, under both locks set by an earlier update, was
\* updated with 'space' held: it plays the mirrored side punch.
C14_Witness ==
    /\ lastOp.name = "update" /\ lastOp.ret /\ lastOp.keys.space
    /\ player.isLoading /\ player.isShooting
    /\ \E i \in OwnEvents("endShoot") : timers[i].due < now + PLAYER_SHOOTING_TIME
    /\ player.orientation = "left"
    /\ player.gameObject.anim = "player-attack-side"
    /\ player.gameObject.flipX

\* ------------------------------------------------------------ C15
Horizontal(keys) == IF keys.left THEN "left" ELSE "right"
Vertical(keys) == IF keys.up THEN "up" ELSE "down"

\* C15 as stated: with a horizontal and a vertical key held, a live Player
\* without movement lock gets velocity on both axes and the orientation of
\* the horizontal direction.  (Violated: the vertical direction wins.)
C15_HorizontalWins ==
    [][ (/\ lastOp'.name = "update" /\ lastOp'.ret /\ ~player.isShooting
         /\ (lastOp'.keys.left \/ lastOp'.keys.right)
         /\ (lastOp'.keys.up \/ lastOp'.keys.down)) =>
            /\ player'.gameObject.velX # 0
            /\ player'.gameObject.velY # 0
            /\ player'.orientation = Horizontal(lastOp'.keys)
      ]_vars

\* C15 as amended: with a vertical key held (a horizontal one held too or
\* not), a live Player without movement lock ends with the orientation of
\* the vertical direction, unmirrored, and, unless a punch or a shot of the
\* same update plays over it, that direction's move animation; velocity is
\* set on the vertical axis and on the horizontal axis iff a horizontal key
\* is held.  With only a horizontal key held the horizontal direction
\* drives orientation, flip and animation.
C15_VerticalWins ==
    [][ (/\ lastOp'.name = "update" /\ lastOp'.ret /\ ~player.isShooting
         /\ \E f \in {"up", "down", "left", "right"} : lastOp'.keys[f]) =>
            LET keys == lastOp'.keys
                horizontal == keys.left \/ keys.right
                vertical == keys.up \/ keys.down
                facing == IF vertical THEN Vertical(keys) ELSE Horizontal(keys)
                played == keys.space \/ (keys.shift /\ ~player.isLoading)
                h == player'.gameObject
            IN  /\ h.velX = IF ~horizontal THEN 0
                            ELSE IF keys.left THEN -PLAYER_SPEED ELSE PLAYER_SPEED
                /\ h.velY = IF ~vertical THEN 0
                            ELSE IF keys.up THEN -PLAYER_SPEED ELSE PLAYER_SPEED
                /\ player'.orientation = facing
                /\ h.flipX = (facing = "left")
                /\ ~played => h.anim = "player-move-" \o facing
      ]_vars

\* The last update had 'left' and 'down' held: the Player moves on both
\* axes, faces down, unmirrored, in the player-move-down animation.
C15_Witness ==
    /\ lastOp.name = "update" /\ lastOp.ret
    /\ lastOp.keys = [NoKeys EXCEPT !.left = TRUE, !.down = TRUE]
    /\ ~player.isShooting
    /\ player.gameObject.velX = -PLAYER_SPEED
    /\ player.gameObject.velY = PLAYER_SPEED
    /\ player.orientation = "down"
    /\ ~player.gameObject.flipX
    /\ player.gameObject.anim = "player-move-down"

\* ------------------------------------------------------------ C17
\* C17: with a scene clock that keeps running, isLoading and isShooting,
\* once true, become false again, whatever is called in between, the
\* Player's death included; no event is dropped or left pending past its
\* time; and a clock step on a destroyed Player does no more than clear
\* the flags whose events are due.
C17_LocksReleased ==
    /\ player.isLoading ~> ~player.isLoading
    /\ player.isShooting ~> ~player.isShooting
    /\ [](\A i \in DOMAIN timers : timers[i].due > now)
    /\ [][ (lastOp'.name = "tick" /\ ~player.gameObject.active) =>
              LET due(callback) ==
                      \E i \in OwnEvents(callback) : timers[i].due <= now'
              IN  /\ player' = [player EXCEPT
                                  !.isLoading = @ /\ ~due("readyToFire"),
                                  !.isShooting = @ /\ ~due("endShoot")]
                  /\ UNCHANGED <<registry, arrows, colliders, tombs, emptyHearts>>
        ]_vars

\* The Player shot, died under both locks, and a later clock step has
\* released both.
C17_Witness ==
    /\ lastOp.name = "tick"
    /\ ~player.gameObject.active
    /\ player.tomb # null
    /\ arrows.created = 1
    /\ player.lastTimeHit < now
    /\ player.lastTimeHit + PLAYER_SHOOTING_TIME >= now
    /\ ~player.isShooting
    /\ player.isLoading
    /\ OwnEvents("endShoot") = {}

\* ------------------------------------------------------------ C18
\* C18: at every moment each lock of the Player has at most one pending
\* release event, and the lock is set iff its release event is pending
\* (isLoading with readyToFire, isShooting with endShoot).
C18_OneReleasePerLock ==
    /\ Cardinality(OwnEvents("readyToFire")) <= 1
    /\ Cardinality(OwnEvents("endShoot")) <= 1
    /\ player.isLoading <=> (OwnEvents("readyToFire") # {})
    /\ player.isShooting <=> (OwnEvents("endShoot") # {})

\* The Player is reloading after its second shot; the release of the
\* first one is gone and one is pending.
C18_Witness ==
    /\ arrows.created = 2
    /\ player.isLoading
    /\ ~player.isShooting
    /\ Cardinality(OwnEvents("readyToFire")) = 1

\* ------------------------------------------------------------ C19
\* C19: an update call on a Player whose game object is destroyed changes
\* nothing, under every key snapshot: no arrow, no collider, no lock, no
\* event, and the same velocity, orientation and animation.
C19_DeadUpdateNoOp ==
    /\ [](~player.gameObject.active =>
              \A keyPressed \in KeySnapshots : update(World, keyPressed) = World)
    /\ [][ (lastOp'.name = "update" /\ ~player.gameObject.active) =>
              UNCHANGED <<player, timers, arrows, colliders, registry, tombs,
                          emptyHearts>>
        ]_vars

\* A dead, unlocked Player was updated with 'up', 'right' and 'shift'
\* held: no arrow exists, it does not move and no lock is set.
C19_Witness ==
    /\ lastOp.name = "update" /\ ~lastOp.ret
    /\ lastOp.keys.shift /\ lastOp.keys.up /\ lastOp.keys.right
    /\ ~player.gameObject.active
    /\ ~player.isLoading /\ ~player.isShooting
    /\ arrows.created = 0
    /\ timers = <<>>
    /\ player.gameObject.velX = 0 /\ player.gameObject.velY = 0

\* ------------------------------------------------------------ C20
\* C20: between operations, the game object of the Player the scene holds
\* is active iff the stored hit points are above 0, and the Player has a
\* tomb iff they are at or below 0.
C20_AliveIffHitPoints ==
    /\ player.gameObject.active <=> (hitPoints > 0)
    /\ (player.tomb # null) <=> (hitPoints <= 0)
    /\ (TombsOf(player.id) # {}) <=> ~player.gameObject.active

\* The second Player of the scene, born with two hit points, has just
\* taken the hit that brought them to 0.
C20_Witness ==
    /\ player.id = 2
    /\ Len(player.hearts) = 2
    /\ lastOp.name = "loseHp"
    /\ hitPoints = 0
    /\ ~player.gameObject.active
    /\ player.tomb # null

====
